---- MODULE Spec2Model ----
(***************************************************************************)
(* State-machine model of the four CI helper scripts under .apiiro/:       *)
(*   get_build_scan_results.py   (build-scan poller)                       *)
(*   get_diff_scan_results.py    (diff-scan poller)                        *)
(*   trigger_build_scan.py       (build-scan trigger)                      *)
(*   trigger_diff_scan.py        (diff-scan trigger)                       *)
(* One behaviour is one invocation of one script's main().                 *)
(***************************************************************************)
EXTENDS Integers, Sequences, FiniteSets

VARIABLES
    script,        \* which script's main() is running
    env,           \* os.getenv of every variable the script reads
    pc,            \* position in main(): "main", "request", "sleep", "exited"
    attempt,       \* loop variable of `for attempt in range(1, max_attempts + 1)`
    requests,      \* calls of requests.get / requests.post made so far
    sleeps,        \* calls of time.sleep made so far
    retries,       \* responses handled by a retry branch (503, diff-scan 404)
    seen,          \* set of HTTP statuses received so far
    response,      \* the last response received (NoResponse before the first)
    request_error, \* the last requests.get / requests.post raised
    exit_code,     \* value handed to sys.exit (NoExit while running)
    file_writes,   \* open(<result file>, 'w') calls made so far
    file_saved,    \* json.dump into the result file completed
    write_failed,  \* the result-file write raised
    output_lines,  \* lines appended to the GITHUB_OUTPUT file
    stdout_last,   \* the last line printed to standard output
    reported       \* the "  - <label>: <count> issues" lines printed

vars == <<script, env, pc, attempt, requests, sleeps, retries, seen, response,
          request_error, exit_code, file_writes, file_saved, write_failed,
          output_lines, stdout_last, reported>>

----------------------------------------------------------------------------
(* Bounds of the enumerated server responses.                              *)

MaxChanges == 2     \* longest materialChanges array enumerated
MaxTextLen == 2     \* longest plain-text response body enumerated

----------------------------------------------------------------------------
(* The scripts and the environment variables each one reads.               *)

BuildPoller == "get_build_scan_results"
DiffPoller == "get_diff_scan_results"
BuildTrigger == "trigger_build_scan"
DiffTrigger == "trigger_diff_scan"

Pollers == {BuildPoller, DiffPoller}
Triggers == {BuildTrigger, DiffTrigger}
Scripts == Pollers \cup Triggers

\* os.getenv returns None (unset), '' (set but empty) or a non-empty string.
EnvValues == {"unset", "empty", "value"}

EnvVars(s) ==
    CASE s = BuildPoller -> {"APIIRO_TOKEN", "BUILD_ID"}
      [] s = DiffPoller -> {"APIIRO_TOKEN", "JOB_ID"}
      [] s = BuildTrigger -> {"APIIRO_TOKEN", "GITHUB_SHA", "GITHUB_REPOSITORY_URL",
                              "GITHUB_OUTPUT"}
      [] s = DiffTrigger -> {"APIIRO_TOKEN", "GITHUB_REPOSITORY_URL", "CURRENT_BRANCH",
                             "DEFAULT_BRANCH", "GITHUB_OUTPUT"}

\* Python `not x` for the result of os.getenv.
Falsy(v) == v \in {"unset", "empty"}

----------------------------------------------------------------------------
(* Polling configuration.                                                  *)

max_wait_minutes == 15
poll_interval_seconds == 30

\* max_attempts without the division by the interval
max_attempts_no_division == max_wait_minutes * 60

\* `max_attempts = (max_wait_minutes * 60) // poll_interval_seconds`
max_attempts == (max_wait_minutes * 60) \div poll_interval_seconds

\* in_range for range(1, max_attempts)
in_range_exclusive(a) == 1 <= a /\ a < max_attempts

\* membership in range(1, max_attempts + 1)
in_range(a) == 1 <= a /\ a < max_attempts + 1

\* attempts_remain off by one: the last attempt sleeps too
attempts_remain_always(a) == a <= max_attempts

\* `if attempt < max_attempts` of the retry branches
attempts_remain(a) == a < max_attempts

----------------------------------------------------------------------------
(* JSON values as Python sees them after response.json().                  *)

JV(t, n, s) == [t |-> t, n |-> n, s |-> s]
Absent == JV("absent", 0, "")       \* key not in the dict
JNull == JV("null", 0, "")
JTrue == JV("bool", 1, "")
JFalse == JV("bool", 0, "")
JNum(n) == JV("number", n, "")
JStr(s) == JV("string", 0, s)
JArr(len) == JV("array", len, "")   \* an array of len elements

\* dict.get(key): None when the key is absent or its value is null
is_none(v) == v.t \in {"absent", "null"}

\* Python truth value of a JSON value
truthy(v) ==
    CASE v.t \in {"absent", "null"} -> FALSE
      [] v.t \in {"bool", "number", "array"} -> v.n # 0
      [] v.t = "string" -> v.s # ""

\* Python `v == s` for a string literal s
py_eq(v, s) == v.t = "string" /\ v.s = s

----------------------------------------------------------------------------
(* Response bodies.  A JSON body is invalid (response.json() raises), a    *)
(* JSON value that is not an object (no .get), or an object with the       *)
(* fields the scripts look at.                                             *)

\* one element of materialChanges: a dict {action, count, label} or a non-dict
Entry(kind, action, count, label) ==
    [kind |-> kind, action |-> action, count |-> count, label |-> label]

NonDictEntry == Entry("nondict", Absent, Absent, Absent)

Actions == {JStr("Block"), JStr("Allow")}
Counts == {Absent, JStr("2"), JNum(0), JNum(2)}
Labels == {JStr("Secrets")}

Entries ==
    {NonDictEntry} \cup
    {Entry("dict", a, c, l) : a \in Actions, c \in Counts, l \in Labels} \cup
    {Entry("dict", JStr("Block"), JNum(1), Absent)}

SeqsUpTo(S, n) == UNION {[1..k -> S] : k \in 0..n}

Changes(kind, items) == [kind |-> kind, items |-> items]
NoChanges == Changes("absent", <<>>)

\* materialChanges: absent, a value that cannot be iterated (null, a number),
\* or an array
ChangesValues ==
    {NoChanges, Changes("noniterable", <<>>)} \cup
    {Changes("list", items) : items \in SeqsUpTo(Entries, MaxChanges)}

Body(kind, buildPassed, result, summary, scanUrl, materialChanges) ==
    [kind |-> kind, buildPassed |-> buildPassed, result |-> result,
     summary |-> summary, scanUrl |-> scanUrl, materialChanges |-> materialChanges]

NoBody == Body("none", Absent, Absent, FALSE, FALSE, NoChanges)
InvalidBody == Body("invalid", Absent, Absent, FALSE, FALSE, NoChanges)
NonObjectBody == Body("nonobject", Absent, Absent, FALSE, FALSE, NoChanges)

BuildPassedValues ==
    {Absent, JNull, JTrue, JFalse, JNum(0), JNum(2), JStr(""), JStr("false"),
     JArr(0), JArr(1)}

BuildBodies ==
    {InvalidBody, NonObjectBody} \cup
    {Body("object", b, Absent, FALSE, FALSE, NoChanges) : b \in BuildPassedValues}

ResultValues == {Absent, JStr("Block"), JStr("Allow")}

DiffBodies ==
    {InvalidBody, NonObjectBody} \cup
    {Body("object", Absent, r, s, u, m) :
        r \in ResultValues, s \in BOOLEAN, u \in BOOLEAN, m \in ChangesValues}

\* plain-text bodies of the trigger endpoints
Chars == {" ", "x"}
Texts == SeqsUpTo(Chars, MaxTextLen)

Statuses == {200, 201, 401, 404, 500, 503}
NoStatus == 0

Response(status, body, text) == [status |-> status, body |-> body, text |-> text]
NoResponse == Response(NoStatus, NoBody, <<>>)

Bodies(s) == IF s = BuildPoller THEN BuildBodies ELSE DiffBodies

\* what requests.get can return to a poller: a body matters only to the 200 branch
PollResponses(s) ==
    {Response(200, b, <<>>) : b \in Bodies(s)} \cup
    {Response(st, NoBody, <<>>) : st \in Statuses \ {200}}

\* what requests.post can return to a trigger
PostResponses == {Response(st, NoBody, t) : st \in Statuses, t \in Texts}

----------------------------------------------------------------------------
(* What the 200 branch of each poller does with a body: the exit code, the *)
(* number of result-file writes attempted, whether the write completed or  *)
(* raised, the last line printed and the blocking issues printed.          *)

Outcome(code, writes, saved, failed, msg, report) ==
    [code |-> code, writes |-> writes, saved |-> saved, failed |-> failed,
     msg |-> msg, report |-> report]

\* response.json() returned a dict: neither it nor scan_results.get raises
parsed(body) == body.kind = "object"

\* build_verdict with the two branches swapped
build_verdict_inverted(build_passed) == IF truthy(build_passed) THEN 1 ELSE 0

\* `if build_passed: return 0 else: return 1`
build_verdict(build_passed) == IF truthy(build_passed) THEN 0 ELSE 1

\* build_write_attempted with the save moved into the passing branch
build_write_attempted_if_passed(body) ==
    parsed(body) /\ ~is_none(body.buildPassed) /\ truthy(body.buildPassed)

\* the build-scan poller reaches `with open('build_scan_results.json', 'w')`
build_write_attempted(body) == parsed(body) /\ ~is_none(body.buildPassed)

\* build_exit without the `is None` check, failing only on an explicit false
build_exit_missing_passes(body, write_ok) ==
    IF ~parsed(body) THEN 1
    ELSE IF body.buildPassed = JFalse THEN 1
    ELSE 0

\* build_exit with the write failure left to the outer `except`
build_exit_write_fatal(body, write_ok) ==
    IF ~parsed(body) THEN 1
    ELSE IF is_none(body.buildPassed) THEN 1
    ELSE IF ~write_ok THEN 1
    ELSE build_verdict(body.buildPassed)

\* the value the build-scan poller returns from its 200 branch
build_exit(body, write_ok) ==
    IF ~parsed(body) THEN 1
    ELSE IF is_none(body.buildPassed) THEN 1
    ELSE build_verdict(body.buildPassed)

\* the last line the build-scan poller prints in its 200 branch
build_msg(body) ==
    IF ~parsed(body) THEN "Error parsing response"
    ELSE IF is_none(body.buildPassed)
    THEN "Error: buildPassed field not found in response"
    ELSE IF truthy(body.buildPassed) THEN "BUILD PASSED - No blocking issues found"
    ELSE "BUILD FAILED - Blocking issues found"

build_on_200(body, write_ok) ==
    LET w == build_write_attempted(body) IN
    Outcome(build_exit(body, write_ok), IF w THEN 1 ELSE 0, w /\ write_ok,
            w /\ ~write_ok, build_msg(body), <<>>)

\* `change.get('count', 0) > 0`: a string compared with 0 raises TypeError
count_raises(count) == count.t \in {"string", "null", "array"}
\* count_positive with `>= 0` for `> 0`
count_non_negative(count) == count.t \in {"number", "bool"} /\ count.n >= 0

\* `change.get('count', 0) > 0` is true
count_positive(count) == count.t \in {"number", "bool"} /\ count.n > 0

\* the filter of the list comprehension; `and` evaluates the count only for
\* action == 'Block'
entry_raises(e) ==
    \/ e.kind = "nondict"
    \/ py_eq(e.action, "Block") /\ count_raises(e.count)

is_blocking(e) == py_eq(e.action, "Block") /\ count_positive(e.count)

changes_raise(m) ==
    \/ m.kind = "noniterable"
    \/ \E i \in 1..Len(m.items) : entry_raises(m.items[i])

blocking_changes(m) == SelectSeq(m.items, is_blocking)

\* "  - {label}: {count} issues" with label defaulting to 'Unknown'
issue_line(e) ==
    [label |-> IF e.label.t = "absent" THEN "Unknown" ELSE e.label.s,
     count |-> e.count.n]

issue_lines(m) ==
    LET b == blocking_changes(m) IN [i \in 1..Len(b) |-> issue_line(b[i])]

\* scan_passed that takes a missing result for a failure
scan_passed_only_if_present(result) == ~is_none(result) /\ ~py_eq(result, "Block")

\* `scan_passed = result != 'Block'`
scan_passed(result) == ~py_eq(result, "Block")

\* the diff-scan poller reaches `with open('diff_scan_results.json', 'w')`
diff_write_attempted(body) == parsed(body)

\* the failure path raises while it lists the blocking changes
diff_report_raises(body) ==
    /\ parsed(body)
    /\ ~scan_passed(body.result)
    /\ body.materialChanges.kind # "absent"
    /\ changes_raise(body.materialChanges)

\* the blocking issues the diff-scan poller prints
diff_report(body) ==
    IF parsed(body) /\ ~scan_passed(body.result)
       /\ body.materialChanges.kind # "absent" /\ ~changes_raise(body.materialChanges)
    THEN issue_lines(body.materialChanges)
    ELSE <<>>

\* the value the diff-scan poller returns from its 200 branch
diff_exit(body, write_ok) ==
    IF ~parsed(body) THEN 1
    ELSE IF scan_passed(body.result) THEN 0
    ELSE 1

\* the last line the diff-scan poller prints in its 200 branch
diff_msg(body) ==
    IF ~parsed(body) \/ diff_report_raises(body) THEN "Error parsing response"
    ELSE IF scan_passed(body.result) THEN "DIFF SCAN PASSED"
    ELSE IF diff_report(body) = <<>> THEN "DIFF SCAN FAILED"
    ELSE "  - label: count issues"

diff_on_200(body, write_ok) ==
    LET w == diff_write_attempted(body) IN
    Outcome(diff_exit(body, write_ok), IF w THEN 1 ELSE 0, w /\ write_ok,
            w /\ ~write_ok, diff_msg(body), diff_report(body))

on_200(s, body, write_ok) ==
    IF s = BuildPoller THEN build_on_200(body, write_ok) ELSE diff_on_200(body, write_ok)

\* retryable with the 404 branch in the build-scan poller too
retryable_404_everywhere(s, status) == status = 503 \/ status = 404

\* the diff-scan retry branches without the 404 one
retryable_503_only(s, status) == status = 503

\* statuses with a retry branch: `elif response.status_code == 503`, and in the
\* diff-scan poller `elif response.status_code == 404`
retryable(s, status) == status = 503 \/ (s = DiffPoller /\ status = 404)

----------------------------------------------------------------------------
(* str.strip() of a plain-text body.                                       *)

RECURSIVE lstrip(_)
lstrip(t) == IF t # <<>> /\ Head(t) = " " THEN lstrip(Tail(t)) ELSE t

RECURSIVE rstrip(_)
rstrip(t) ==
    IF t # <<>> /\ t[Len(t)] = " " THEN rstrip(SubSeq(t, 1, Len(t) - 1)) ELSE t

\* strip that leaves the trailing whitespace (the newline after the id)
strip_left_only(t) == lstrip(t)

strip(t) == rstrip(lstrip(t))

----------------------------------------------------------------------------
(* Initial state: main() is entered with some environment.                 *)

NoExit == -1

Init ==
    /\ script \in Scripts
    /\ env \in [EnvVars(script) -> EnvValues]
    /\ pc = "main"
    /\ attempt = 0
    /\ requests = 0
    /\ sleeps = 0
    /\ retries = 0
    /\ seen = {}
    /\ response = NoResponse
    /\ request_error = FALSE
    /\ exit_code = NoExit
    /\ file_writes = 0
    /\ file_saved = FALSE
    /\ write_failed = FALSE
    /\ output_lines = <<>>
    /\ stdout_last = ""
    /\ reported = <<>>

\* `return code` after a last print(msg)
Exit(code, msg) ==
    /\ pc' = "exited"
    /\ exit_code' = code
    /\ stdout_last' = msg

----------------------------------------------------------------------------
(* The pollers.                                                            *)

id_var(s) == IF s = BuildPoller THEN "BUILD_ID" ELSE "JOB_ID"

\* `if not token: ... return 1` and `if not build_id: ... return 1`
poller_env_missing(s, e) == Falsy(e["APIIRO_TOKEN"]) \/ Falsy(e[id_var(s)])

\* the head of `for attempt in range(1, max_attempts + 1)` reached with
\* attempt = a: the body runs, or the loop ends and main() falls through
LoopHead(a) ==
    /\ attempt' = a
    /\ IF in_range(a)
       THEN /\ pc' = "request"
            /\ exit_code' = exit_code
            /\ stdout_last' = "Checking scan status..."
       ELSE Exit(1, "Scan did not complete within the maximum wait time")

\* main() up to the loop: environment checks and polling configuration
PollerStart ==
    /\ script \in Pollers
    /\ pc = "main"
    /\ IF poller_env_missing(script, env)
       THEN /\ Exit(1, IF Falsy(env["APIIRO_TOKEN"])
                       THEN "Error: Missing APIIRO_TOKEN environment variable"
                       ELSE "Error: Missing id environment variable")
            /\ attempt' = attempt
       ELSE LoopHead(1)
    /\ UNCHANGED <<script, env, requests, sleeps, retries, seen, response,
                   request_error, file_writes, file_saved, write_failed,
                   output_lines, reported>>

\* PollRaises that treats the exception as pending: sleep and try again
PollRaisesRetried(s) ==
    /\ requests' = requests + 1
    /\ request_error' = TRUE
    /\ IF attempts_remain(attempt)
       THEN /\ pc' = "sleep"
            /\ exit_code' = exit_code
            /\ stdout_last' = "Request error"
       ELSE Exit(1, "Request error")
    /\ UNCHANGED <<script, env, attempt, sleeps, retries, seen, response,
                   file_writes, file_saved, write_failed, output_lines, reported>>

\* requests.get raises (connection error, timeout): `except Exception` returns 1
PollRaises(s) ==
    /\ requests' = requests + 1
    /\ request_error' = TRUE
    /\ Exit(1, "Request error")
    /\ UNCHANGED <<script, env, attempt, sleeps, retries, seen, response,
                   file_writes, file_saved, write_failed, output_lines, reported>>

\* status 200: parse, save, verdict
Poll200(s) ==
    \E r \in PollResponses(s), write_ok \in BOOLEAN :
        /\ r.status = 200
        /\ requests' = requests + 1
        /\ request_error' = FALSE
        /\ response' = r
        /\ seen' = seen \cup {r.status}
        /\ LET o == on_200(s, r.body, write_ok) IN
               /\ Exit(o.code, o.msg)
               /\ file_writes' = file_writes + o.writes
               /\ file_saved' = o.saved
               /\ write_failed' = o.failed
               /\ reported' = o.report
        /\ UNCHANGED <<script, env, attempt, sleeps, retries, output_lines>>

\* status 503 (404 in the diff-scan poller): sleep and continue, or time out
PollRetry(s) ==
    \E r \in PollResponses(s) :
        /\ retryable(s, r.status)
        /\ requests' = requests + 1
        /\ request_error' = FALSE
        /\ response' = r
        /\ seen' = seen \cup {r.status}
        /\ retries' = retries + 1
        /\ IF attempts_remain(attempt)
           THEN /\ pc' = "sleep"
                /\ exit_code' = exit_code
                /\ stdout_last' = IF r.status = 404 THEN "Diff scan job not found..."
                                   ELSE "Scan still in progress..."
           ELSE Exit(1, IF r.status = 404 THEN "Diff scan job was never found"
                        ELSE "Scan did not complete within timeout")
        /\ UNCHANGED <<script, env, attempt, sleeps, file_writes, file_saved,
                       write_failed, output_lines, reported>>

\* PollFails that saves the error response as the result file
PollFailsSaving(s) ==
    \E r \in PollResponses(s) :
        /\ r.status # 200
        /\ ~retryable(s, r.status)
        /\ requests' = requests + 1
        /\ request_error' = FALSE
        /\ response' = r
        /\ seen' = seen \cup {r.status}
        /\ file_writes' = file_writes + 1
        /\ file_saved' = TRUE
        /\ Exit(1, "API request failed with status")
        /\ UNCHANGED <<script, env, attempt, sleeps, retries, write_failed,
                       output_lines, reported>>

\* any other status
PollFails(s) ==
    \E r \in PollResponses(s) :
        /\ r.status # 200
        /\ ~retryable(s, r.status)
        /\ requests' = requests + 1
        /\ request_error' = FALSE
        /\ response' = r
        /\ seen' = seen \cup {r.status}
        /\ Exit(1, "API request failed with status")
        /\ UNCHANGED <<script, env, attempt, sleeps, retries, file_writes,
                       file_saved, write_failed, output_lines, reported>>

\* one iteration of the loop body
Poll(s) ==
    /\ script = s
    /\ pc = "request"
    /\ \/ PollRaises(s)
       \/ Poll200(s)
       \/ PollRetry(s)
       \/ PollFails(s)

BuildPoll == Poll(BuildPoller)

DiffPoll == Poll(DiffPoller)

\* the next value of range(1, max_attempts + 1)
next_attempt(a) == a + 1

\* `time.sleep(poll_interval_seconds); continue`
Sleep ==
    /\ script \in Pollers
    /\ pc = "sleep"
    /\ sleeps' = sleeps + 1
    /\ LoopHead(next_attempt(attempt))
    /\ UNCHANGED <<script, env, requests, retries, seen, response, request_error,
                   file_writes, file_saved, write_failed, output_lines, reported>>

----------------------------------------------------------------------------
(* The triggers.                                                           *)

output_key(s) == IF s = BuildTrigger THEN "build_id" ELSE "job_id"

\* main() up to requests.post: os.getenv, prints, payload and headers.  No
\* value is checked; `commit_sha[:8]` of the build-scan trigger raises an
\* uncaught TypeError when GITHUB_SHA is unset (traceback, exit status 1).
TriggerStart ==
    /\ script \in Triggers
    /\ pc = "main"
    /\ IF script = BuildTrigger /\ env["GITHUB_SHA"] = "unset"
       THEN Exit(1, "Triggering scan...")
       ELSE /\ pc' = "request"
            /\ exit_code' = exit_code
            /\ stdout_last' = "Repository: ..."
    /\ UNCHANGED <<script, env, attempt, requests, sleeps, retries, seen, response,
                   request_error, file_writes, file_saved, write_failed,
                   output_lines, reported>>

\* requests.post raises: `except Exception` returns 1
PostRaises ==
    /\ requests' = requests + 1
    /\ request_error' = TRUE
    /\ Exit(1, "Request error")
    /\ UNCHANGED <<script, env, attempt, sleeps, retries, seen, response,
                   file_writes, file_saved, write_failed, output_lines, reported>>

\* status 200: strip the identifier, append it to GITHUB_OUTPUT when that is set
Post200 ==
    \E r \in PostResponses, append_ok \in BOOLEAN :
        /\ r.status = 200
        /\ requests' = requests + 1
        /\ request_error' = FALSE
        /\ response' = r
        /\ seen' = seen \cup {r.status}
        /\ LET id == strip(r.text) IN
               IF id = <<>>
               THEN /\ Exit(1, "Error: API returned empty id")
                    /\ output_lines' = output_lines
               ELSE IF Falsy(env["GITHUB_OUTPUT"])
               THEN /\ Exit(0, "Id: ...")
                    /\ output_lines' = output_lines
               ELSE IF append_ok
               THEN /\ Exit(0, "Id set as GitHub Actions output")
                    /\ output_lines' =
                           Append(output_lines, [key |-> output_key(script), value |-> id])
               ELSE /\ Exit(1, "Request error")
                    /\ output_lines' = output_lines
        /\ UNCHANGED <<script, env, attempt, sleeps, retries, file_writes,
                       file_saved, write_failed, reported>>

\* any other status
PostFails ==
    \E r \in PostResponses :
        /\ r.status # 200
        /\ requests' = requests + 1
        /\ request_error' = FALSE
        /\ response' = r
        /\ seen' = seen \cup {r.status}
        /\ Exit(1, "API request failed with status")
        /\ UNCHANGED <<script, env, attempt, sleeps, retries, file_writes,
                       file_saved, write_failed, output_lines, reported>>

TriggerPost ==
    /\ script \in Triggers
    /\ pc = "request"
    /\ \/ PostRaises
       \/ Post200
       \/ PostFails

----------------------------------------------------------------------------
Next ==
    \/ PollerStart
    \/ BuildPoll
    \/ DiffPoll
    \/ Sleep
    \/ TriggerStart
    \/ TriggerPost

Spec == Init /\ [][Next]_vars

TypeOK ==
    /\ script \in Scripts
    /\ pc \in {"main", "request", "sleep", "exited"}
    /\ attempt \in 0..max_attempts
    /\ exit_code \in {NoExit, 0, 1}
    /\ file_writes \in 0..1

----------------------------------------------------------------------------
(* Properties.                                                             *)

Exited == pc = "exited"

\* an HTTP 200 was the last thing the request returned
Got200 == response.status = 200 /\ ~request_error

\* the discriminators of the two endpoints: buildPassed == true, and
\* result other than "Block"
Passes(s, body) ==
    /\ body.kind = "object"
    /\ IF s = BuildPoller THEN body.buildPassed = JTrue
       ELSE ~(body.result = JStr("Block"))

\* C1: in both pollers max_attempts is floor(max wait / poll interval), 30 for
\* 15 minutes and 30 seconds, and a run never issues more than that many GETs.
C1_AtMostMaxAttemptsRequests ==
    /\ max_attempts = 30
    /\ script \in Pollers =>
           requests <= (max_wait_minutes * 60) \div poll_interval_seconds

C1_Witness ==
    /\ script = DiffPoller
    /\ requests = (max_wait_minutes * 60) \div poll_interval_seconds
    /\ Exited

\* C2: a poller that is answered 503 on every request exits 1 as timed out after
\* exactly max_attempts requests and max_attempts - 1 sleeps, and until then it
\* keeps polling.
C2_All503TimesOut ==
    (script \in Pollers /\ seen = {503} /\ ~request_error) =>
        /\ pc \in {"sleep", "request", "exited"}
        /\ ~Exited => requests < max_attempts
        /\ Exited =>
              /\ exit_code = 1
              /\ stdout_last = "Scan did not complete within timeout"
              /\ requests = max_attempts
              /\ sleeps = max_attempts - 1

C2_Witness ==
    /\ script = BuildPoller
    /\ seen = {503}
    /\ ~request_error
    /\ Exited
    /\ requests = max_attempts

\* C3: a poller that receives k < max_attempts retryable responses and then a
\* 200 with a passing body exits 0 after exactly k + 1 requests and k sleeps; a
\* 200 ends the run (no request follows it); every run that has issued a request
\* ends with sleeps = requests - 1.
C3_RetriesThenPass ==
    script \in Pollers =>
        /\ (Got200 /\ Passes(script, response.body)) =>
              /\ Exited
              /\ exit_code = 0
              /\ retries < max_attempts
              /\ requests = retries + 1
              /\ sleeps = retries
        /\ Got200 => Exited
        /\ (Exited /\ requests >= 1) => sleeps = requests - 1

C3_Witness ==
    /\ script \in Pollers
    /\ Got200
    /\ Passes(script, response.body)
    /\ Exited
    /\ sleeps = 2
    /\ seen = {503, 200}

\* C4: in the build-scan poller a 200 whose JSON object carries a buildPassed
\* field, of any JSON value, gives exit code 0 if and only if buildPassed is
\* true, and exit code 1 for every other value.
C4_BuildPassedIffTrue ==
    (/\ script = BuildPoller
     /\ Exited
     /\ Got200
     /\ response.body.kind = "object"
     /\ response.body.buildPassed.t # "absent") =>
        /\ exit_code \in {0, 1}
        /\ exit_code = 0 <=> response.body.buildPassed = JTrue

\* C5: in the build-scan poller a 200 whose body has no buildPassed field is
\* fatal: the run exits 1 on that attempt as a missing-field error, without a
\* sleep or a further request, whatever attempts remain.
C5_MissingBuildPassedFatal ==
    (/\ script = BuildPoller
     /\ Got200
     /\ response.body.kind = "object"
     /\ response.body.buildPassed.t = "absent") =>
        /\ Exited
        /\ exit_code = 1
        /\ stdout_last = "Error: buildPassed field not found in response"
        /\ requests = attempt
        /\ sleeps = attempt - 1

C5_Witness ==
    /\ script = BuildPoller
    /\ Got200
    /\ response.body.kind = "object"
    /\ response.body.buildPassed.t = "absent"
    /\ Exited
    /\ attempt = 2

\* C6: in the diff-scan poller a 200 with a JSON object body gives exit code 1
\* if and only if result equals "Block"; any other result, an absent one
\* included, gives exit code 0, whatever summary, scanUrl and materialChanges
\* contain.
C6_FailureIffBlock ==
    (/\ script = DiffPoller
     /\ Exited
     /\ Got200
     /\ response.body.kind = "object") =>
        /\ exit_code \in {0, 1}
        /\ exit_code = 1 <=> response.body.result = JStr("Block")

C6_Witness ==
    /\ script = DiffPoller
    /\ Exited
    /\ Got200
    /\ response.body.kind = "object"
    /\ response.body.result = Absent
    /\ response.body.summary
    /\ response.body.materialChanges.kind = "list"
    /\ Len(response.body.materialChanges.items) = 2
    /\ response.body.materialChanges.items[1] = NonDictEntry
    /\ exit_code = 0

\* C7 as stated: every poller run that ends on a 200 response has attempted to
\* write the result file, whatever the verdict.
C7_Every200Writes ==
    (script \in Pollers /\ Exited /\ Got200) => file_writes = 1

\* the 200 response was classified as success or failure: the body parsed to a
\* JSON object and, on the build-scan endpoint, carries a non-null buildPassed
HasVerdict(s, body) ==
    /\ body.kind = "object"
    /\ s = BuildPoller => body.buildPassed.t \notin {"absent", "null"}

\* C7 amended: every poller run that ends on a 200 response classified as success
\* or failure has attempted to write the result file exactly once, whatever the
\* verdict.
C7_VerdictWrites ==
    (script \in Pollers /\ Exited /\ Got200 /\ HasVerdict(script, response.body)) =>
        /\ file_writes = 1
        /\ file_saved \/ write_failed

C7_Witness ==
    /\ script = BuildPoller
    /\ Exited
    /\ Got200
    /\ HasVerdict(script, response.body)
    /\ exit_code = 1
    /\ file_writes = 1

\* C8: in both pollers a failed result-file write does not change the outcome:
\* the run ends on that attempt with the exit code the same response gives
\* when the write succeeds.
C8_WriteFailureKeepsOutcome ==
    (script \in Pollers /\ write_failed) =>
        /\ Exited
        /\ Got200
        /\ ~file_saved
        /\ exit_code = on_200(script, response.body, TRUE).code
        /\ requests = attempt
        /\ requests = retries + 1

C8_Witness ==
    /\ script \in Pollers
    /\ write_failed
    /\ Exited
    /\ exit_code = 0

\* the environment values a script requires
RequiredVars(s) == EnvVars(s) \ {"GITHUB_OUTPUT"}

\* C9: in each of the four scripts, a run with a required environment value
\* absent issues no HTTP request and exits 1.
C9_MissingEnvNoRequest ==
    (\E v \in RequiredVars(script) : env[v] = "unset") =>
        /\ requests = 0
        /\ Exited => exit_code = 1

\* C10: a poller exits with 0 or 1, and with 0 only if the last response was a
\* 200 whose body passes the endpoint's discriminator.
C10_ZeroOnlyOnPassing200 ==
    (script \in Pollers /\ Exited) =>
        /\ exit_code \in {0, 1}
        /\ exit_code = 0 => (Got200 /\ Passes(script, response.body))

\* C11: a transport failure (requests.get raises) on attempt k of either poller
\* is not retried: the run exits 1 after exactly k requests, with no sleep after
\* the failed attempt.
C11_TransportErrorFatal ==
    (script \in Pollers /\ request_error) =>
        /\ Exited
        /\ exit_code = 1
        /\ stdout_last = "Request error"
        /\ requests = attempt
        /\ sleeps = attempt - 1

C11_Witness ==
    /\ script \in Pollers
    /\ request_error
    /\ Exited
    /\ attempt = 3
    /\ requests = 3

\* the statuses a poller has a branch for
Handled(s) == IF s = BuildPoller THEN {200, 503} ELSE {200, 503, 404}

\* C12: a status the poller does not handle (build-scan: any other than 200 and
\* 503, so 404 too; diff-scan: any other than 200, 503 and 404) ends the run at
\* once with exit code 1, no sleep and no further request.
C12_UnexpectedStatusFatal ==
    (/\ script \in Pollers
     /\ ~request_error
     /\ response.status # NoStatus
     /\ response.status \notin Handled(script)) =>
        /\ Exited
        /\ exit_code = 1
        /\ stdout_last = "API request failed with status"
        /\ requests = attempt
        /\ sleeps = attempt - 1

C12_Witness ==
    /\ script = BuildPoller
    /\ ~request_error
    /\ response.status = 404
    /\ Exited
    /\ attempt = 2

\* C13: in the diff-scan poller 404 is retried like 503 on one shared budget: a
\* run answered only 503 or 404, in any order, keeps polling and exits 1 after
\* exactly max_attempts requests and max_attempts - 1 sleeps.
C13_SharedRetryBudget ==
    (script = DiffPoller /\ seen # {} /\ seen \subseteq {503, 404} /\ ~request_error) =>
        /\ retries = requests
        /\ ~Exited => (pc \in {"sleep", "request"} /\ requests < max_attempts)
        /\ Exited =>
              /\ exit_code = 1
              /\ stdout_last \in {"Scan did not complete within timeout",
                                  "Diff scan job was never found"}
              /\ requests = max_attempts
              /\ sleeps = max_attempts - 1

C13_Witness ==
    /\ script = DiffPoller
    /\ seen = {503, 404}
    /\ ~request_error
    /\ Exited
    /\ requests = max_attempts
    /\ response.status = 404

\* the lines "<label>: <count> issues" of the entries with action "Block" and a
\* count above zero, in the order of the array
RECURSIVE ExpectedIssues(_)
ExpectedIssues(items) ==
    IF items = <<>> THEN <<>>
    ELSE LET e == Head(items)
             rest == ExpectedIssues(Tail(items))
         IN IF /\ e.kind = "dict"
               /\ e.action = JStr("Block")
               /\ e.count.t = "number"
               /\ e.count.n > 0
            THEN <<[label |-> IF e.label.t = "string" THEN e.label.s ELSE "Unknown",
                    count |-> e.count.n]>> \o rest
            ELSE rest

\* the diff-scan poller ended on a 200 with result "Block" and an array of
\* materialChanges
BlockedWithChanges ==
    /\ script = DiffPoller
    /\ Exited
    /\ Got200
    /\ response.body.kind = "object"
    /\ response.body.result = JStr("Block")
    /\ response.body.materialChanges.kind = "list"

WellFormedChanges(items) ==
    \A i \in 1..Len(items) :
        /\ items[i].kind = "dict"
        /\ items[i].action = JStr("Block") => items[i].count.t \in {"number", "absent"}

ErrorLines ==
    {"Error: Missing APIIRO_TOKEN environment variable",
     "Error: Missing id environment variable",
     "Request error",
     "API request failed with status",
     "Error parsing response",
     "Error: buildPassed field not found in response",
     "BUILD FAILED - Blocking issues found",
     "DIFF SCAN FAILED",
     "  - label: count issues",
     "Scan did not complete within timeout",
     "Diff scan job was never found",
     "Scan did not complete within the maximum wait time",
     "Error: API returned empty id"}

\* C15: in each of the four scripts a run that ends with a non-zero exit code
\* has printed an error message to standard output before exiting.
C15_NonZeroExitPrintsError ==
    (Exited /\ exit_code # 0) => stdout_last \in ErrorLines

\* the text is empty or whitespace only
Blank(text) == \A i \in 1..Len(text) : text[i] = " "

\* v is the text between its first and its last non-blank character
Trimmed(text, v) ==
    \E i, j \in 1..Len(text) :
        /\ i <= j
        /\ text[i] # " "
        /\ text[j] # " "
        /\ \A k \in 1..Len(text) : (k < i \/ k > j) => text[k] = " "
        /\ v = SubSeq(text, i, j)

\* the POST returned 200 with an identifier that is not empty after trimming
GotId == Got200 /\ ~Blank(response.text)

\* exactly one line key=<trimmed id> is in the output sink
OneOutputLine ==
    /\ Len(output_lines) = 1
    /\ output_lines[1].key = (IF script = BuildTrigger THEN "build_id" ELSE "job_id")
    /\ Trimmed(response.text, output_lines[1].value)

\* C16 as stated: a trigger run exits 0 if and only if the POST returned 200
\* with a non-empty trimmed identifier; every run that exits 0 has appended
\* exactly one key=value line, and a run that exits 1 has appended nothing.
C16_TriggerExitAndOutput ==
    (script \in Triggers /\ Exited) =>
        /\ exit_code \in {0, 1}
        /\ exit_code = 0 <=> GotId
        /\ exit_code = 0 => OneOutputLine
        /\ exit_code = 1 => output_lines = <<>>

\* C16 amended: a trigger run exits 0 if and only if the POST returned 200 with
\* a non-empty trimmed identifier and the output step did not fail; a run that
\* exits 0 has appended exactly one key=value line when GITHUB_OUTPUT is set and
\* non-empty and nothing otherwise; a run that exits 1 has appended nothing.
C16_TriggerExitAndOutputIfSet ==
    (script \in Triggers /\ Exited) =>
        /\ exit_code \in {0, 1}
        /\ exit_code = 0 => GotId
        /\ (GotId /\ Falsy(env["GITHUB_OUTPUT"])) => exit_code = 0
        /\ (GotId /\ exit_code = 1) => stdout_last = "Request error"
        /\ exit_code = 0 =>
               IF Falsy(env["GITHUB_OUTPUT"]) THEN output_lines = <<>> ELSE OneOutputLine
        /\ exit_code = 1 => output_lines = <<>>

C16_Witness ==
    /\ script = DiffTrigger
    /\ Exited
    /\ exit_code = 0
    /\ response.text = <<" ", "x">>
    /\ OneOutputLine

\* C17: a poller run that has received no HTTP 200 (timeout, unexpected status,
\* transport error, missing configuration) has not touched the result file.
C17_NoWriteWithout200 ==
    (script \in Pollers /\ 200 \notin seen) =>
        /\ file_writes = 0
        /\ ~file_saved
        /\ ~write_failed

C17_Witness ==
    /\ script \in Pollers
    /\ 200 \notin seen
    /\ Exited
    /\ response.status = 500
    /\ attempt = 2
    /\ file_writes = 0

\* the run returned from the statements after the for loop
FellThrough ==
    Exited /\ stdout_last = "Scan did not complete within the maximum wait time"

\* the run returned from the else of a retry branch
TimedOut ==
    /\ Exited
    /\ stdout_last \in {"Scan did not complete within timeout",
                        "Diff scan job was never found"}

\* C18: with max_attempts >= 1 no poller run takes the fall-through return after
\* the loop: every run that entered the loop returns from the loop body, and the
\* timeout is returned by the 503/404 branch of the last attempt.
C18_NoFallThrough ==
    (script \in Pollers /\ max_attempts >= 1) =>
        /\ ~FellThrough
        /\ (Exited /\ ~poller_env_missing(script, env)) =>
               (1 <= attempt /\ attempt <= max_attempts /\ requests = attempt)
        /\ TimedOut =>
               /\ attempt = max_attempts
               /\ ~request_error
               /\ response.status \in {503, 404}
               /\ exit_code = 1

C18_Witness ==
    /\ script = DiffPoller
    /\ max_attempts >= 1
    /\ TimedOut
    /\ attempt = max_attempts
    /\ response.status = 404

====
